---- MODULE Spec2Model ----
(***************************************************************************)
(* Rotary positional embeddings of aphrodite-engine                        *)
(* (aphrodite/modeling/layers/rotary_embedding.py): construction of the    *)
(* cos/sin cache by the four variants and its application by forward().    *)
(*                                                                         *)
(* Arithmetic.  The code computes in single precision; the model computes  *)
(* over exact reals.  A rational is a pair <<n, d>> in lowest terms, d > 0.*)
(* Transcendental values stay symbolic and are normalised only by the      *)
(* identities that hold exactly in IEEE arithmetic as well:                *)
(*   b ** 0 = 1,  1 ** e = 1,  x * 1 = x,  0 * x = 0 (x finite),           *)
(*   cos(0) = 1,  sin(0) = 0,  log(1) = 0.                                 *)
(* inf, -inf and nan are values of their own (PosInf, NegInf, NaN); the    *)
(* sign of a zero is not kept.  The cast to the default dtype is            *)
(* kept as the tensor's dtype tag: the stored entries are the computed     *)
(* ones rounded to that dtype.                                             *)
(***************************************************************************)
EXTENDS Integers, Sequences, FiniteSets, TLC

VARIABLES
    args,           \* the constructor call: variant and arguments
    default_dtype,  \* torch.get_default_dtype() of the process
    layer,          \* the embedding object (self) and how __init__ ended
    heap,           \* the tensors allocated so far; a reference is an index
    pc,             \* per worker: where its forward() call stands
    positions,      \* per worker: the positions tensor of its call
    query,          \* per worker: its query buffer (token -> channels)
    key,            \* per worker: its key buffer
    pending,        \* per worker: tokens the rotation primitive has yet to do
    call,           \* per worker: the arguments forward() handed the primitive
    ramp_call,      \* a call of _yarn_linear_ramp_mask and the mask made of it
    config          \* a call of _get_and_verify_max_len: arguments and outcome

vars == <<args, default_dtype, layer, heap, pc, positions, query, key,
          pending, call, ramp_call, config>>

----------------------------------------------------------------------------
(* Bounds of the model *)

MaxRotaryDim == 6
MaxPositions == 3
LongContext == 13
MaxPositionIndex == 1

Workers == {"w1", "w2"}

----------------------------------------------------------------------------
(* Exact rationals *)

Abs(x) == IF x < 0 THEN -x ELSE x

RECURSIVE GCD(_, _)
GCD(a, b) == IF b = 0 THEN a ELSE GCD(b, a % b)

Rat(n, d) ==
    LET s == IF d < 0 THEN -1 ELSE 1
        g == GCD(Abs(n), Abs(d))
    IN  <<(s * n) \div g, (s * d) \div g>>

RatInt(i) == <<i, 1>>
Zero == <<0, 1>>
One == <<1, 1>>

RatAdd(a, b) == Rat(a[1] * b[2] + b[1] * a[2], a[2] * b[2])
RatSub(a, b) == Rat(a[1] * b[2] - b[1] * a[2], a[2] * b[2])
RatMul(a, b) == Rat(a[1] * b[1], a[2] * b[2])
RatDiv(a, b) == Rat(a[1] * b[2], a[2] * b[1])
RatLe(a, b) == a[1] * b[2] <= b[1] * a[2]
RatLt(a, b) == a[1] * b[2] < b[1] * a[2]
RatCeil(a) == (a[1] + a[2] - 1) \div a[2]

(* Float values that are no real number *)
NaN == <<0, 0>>
PosInf == <<1, 0>>
NegInf == <<-1, 0>>
IsFinite(a) == a[2] # 0

Sign(n) == IF n < 0 THEN -1 ELSE IF n > 0 THEN 1 ELSE 0

(* a * b: nan spreads, 0 * inf is nan, otherwise an inf keeps the sign *)
FMul(a, b) ==
    IF a = NaN \/ b = NaN THEN NaN
    ELSE IF IsFinite(a) /\ IsFinite(b) THEN RatMul(a, b)
    ELSE IF a[1] = 0 \/ b[1] = 0 THEN NaN
    ELSE <<Sign(a[1]) * Sign(b[1]), 0>>

(* a + b: nan spreads, inf + -inf is nan, otherwise an inf stays *)
FAdd(a, b) ==
    IF a = NaN \/ b = NaN THEN NaN
    ELSE IF IsFinite(a) /\ IsFinite(b) THEN RatAdd(a, b)
    ELSE IF IsFinite(a) THEN b
    ELSE IF IsFinite(b) THEN a
    ELSE IF a = b THEN a ELSE NaN

(* 1.0 / a, elementwise on a tensor: 1 / 0 is inf, 1 / inf is 0 *)
FInv(a) ==
    IF a = NaN THEN NaN
    ELSE IF ~IsFinite(a) THEN Zero
    ELSE IF a[1] = 0 THEN PosInf
    ELSE RatDiv(One, a)

----------------------------------------------------------------------------
(* Results of Python calls: a value, or the exception raised *)

Ok(v) == [err |-> "", val |-> v]
Raise(e) == [err |-> e, val |-> <<>>]

----------------------------------------------------------------------------
(* Symbolic reals of the frequency basis *)

(* base * x ** e, the rope base (possibly rescaled by dynamic NTK) *)
BaseTerm(b, x, e) ==
    IF b = 0 \/ x = One \/ e = Zero THEN [b |-> b, x |-> One, e |-> Zero]
    ELSE [b |-> b, x |-> x, e |-> e]

PlainBase(b) == BaseTerm(b, One, Zero)

(* c * B ** (-e): an inverse frequency, or an angle *)
UnitPow == [B |-> PlainBase(1), e |-> Zero]
PowTerm(B, e) == IF e = Zero THEN UnitPow ELSE [B |-> B, e |-> e]
Freq(c, w) == IF c = Zero THEN [c |-> Zero, w |-> UnitPow] ELSE [c |-> c, w |-> w]

(* mscale = k * (0.1 * log(s) + 1.0); s = 1 when the logarithm is not taken *)
Scale(k, s) == [k |-> k, s |-> IF k = Zero THEN One ELSE s]
UnitScale == Scale(One, One)

(* A cache entry: scale * fn(angle) *)
Entry(fn, angle, scale) ==
    IF ~IsFinite(angle.c) THEN [fn |-> "nan", angle |-> Freq(Zero, UnitPow), scale |-> UnitScale]
    ELSE IF angle.c = Zero
         THEN [fn |-> "const", angle |-> Freq(Zero, UnitPow),
               scale |-> IF fn = "cos" THEN scale ELSE Scale(Zero, One)]
         ELSE [fn |-> fn, angle |-> angle, scale |-> scale]

ConstOne == Entry("cos", Freq(Zero, UnitPow), UnitScale)
ConstZero == Entry("sin", Freq(Zero, UnitPow), UnitScale)

----------------------------------------------------------------------------
(* torch primitives used by the constructors *)

(* torch.arange(end): 0, 1, ..., as many as ceil(end); a negative end raises *)
arange(end) ==
    IF end[1] < 0 THEN Raise("RuntimeError")
    ELSE Ok([p \in 1..RatCeil(end) |-> RatInt(p - 1)])

(* the length of torch.arange(0, rotary_dim, 2) *)
HalfCount(rotary_dim) == (rotary_dim + 1) \div 2

(* torch.einsum("i,j -> ij", t, inv_freq) *)
einsum(t, inv_freq) ==
    [p \in 1..Len(t) |->
        [j \in 1..Len(inv_freq) |->
            Freq(FMul(t[p], inv_freq[j].c), inv_freq[j].w)]]

(* the concatenation with the sines first *)
cat_sin_cos(freqs, n, mscale) ==
    [dtype |-> "float32",
     shape |-> <<Len(freqs), 2 * n>>,
     data  |-> [p \in 1..Len(freqs) |->
                  [j \in 1..(2 * n) |->
                      IF j <= n THEN Entry("sin", freqs[p][j], mscale)
                      ELSE Entry("cos", freqs[p][j - n], mscale)]]]

(* torch.cat((freqs.cos() * mscale, freqs.sin() * mscale), dim=-1) *)
cat_cos_sin(freqs, n, mscale) ==
    [dtype |-> "float32",
     shape |-> <<Len(freqs), 2 * n>>,
     data  |-> [p \in 1..Len(freqs) |->
                  [j \in 1..(2 * n) |->
                      IF j <= n THEN Entry("cos", freqs[p][j], mscale)
                      ELSE Entry("sin", freqs[p][j - n], mscale)]]]

(* tensor.to(dtype): the tensor itself when the dtype is already its own *)
to_dtype(tensor, dtype) == [tensor EXCEPT !.dtype = dtype]

----------------------------------------------------------------------------
(* RotaryEmbedding *)

(* 1.0 / (base ** e): base ** 0 is 1 for every base; a base of 0 gives      *)
(* 1 / 0 = inf and a negative base nan at the fractional exponents          *)
inv_pow(base, e) ==
    IF base.b = 0 /\ e # Zero THEN Freq(PosInf, UnitPow)
    ELSE IF base.b < 0 /\ e # Zero THEN Freq(NaN, UnitPow)
    ELSE Freq(One, PowTerm(base, e))

compute_inv_freq(self, base) ==
    IF self.rotary_dim < 0 THEN Raise("RuntimeError")
    ELSE Ok([i \in 1..HalfCount(self.rotary_dim) |->
                inv_pow(base, Rat(2 * (i - 1), self.rotary_dim))])

compute_cos_sin_cache(self) ==
    LET inv_freq == compute_inv_freq(self, PlainBase(self.base))
        t == arange(RatInt(self.max_position_embeddings))
    IN  IF inv_freq.err # "" THEN inv_freq
        ELSE IF t.err # "" THEN t
        ELSE Ok(cat_cos_sin(einsum(t.val, inv_freq.val), Len(inv_freq.val),
                            UnitScale))

----------------------------------------------------------------------------
(* LinearScalingRotaryEmbedding *)

(* the linear variant without the compression t / scaling_factor *)
Linear_compute_cos_sin_cache_Uncompressed(self) ==
    LET inv_freq == compute_inv_freq(self, PlainBase(self.base))
        max_len == RatMul(RatInt(self.max_position_embeddings),
                          self.scaling_factor)
        t == arange(max_len)
    IN  IF inv_freq.err # "" THEN inv_freq
        ELSE IF t.err # "" THEN t
        ELSE Ok(cat_cos_sin(einsum(t.val, inv_freq.val), Len(inv_freq.val),
                            UnitScale))

Linear_compute_cos_sin_cache(self) ==
    LET inv_freq == compute_inv_freq(self, PlainBase(self.base))
        max_len == RatMul(RatInt(self.max_position_embeddings),
                          self.scaling_factor)
        t0 == arange(max_len)
        t == [p \in 1..Len(t0.val) |->
                 FMul(t0.val[p], FInv(self.scaling_factor))]
    IN  IF inv_freq.err # "" THEN inv_freq
        ELSE IF t0.err # "" THEN t0
        ELSE Ok(cat_cos_sin(einsum(t, inv_freq.val), Len(inv_freq.val),
                            UnitScale))

----------------------------------------------------------------------------
(* DynamicNTKScalingRotaryEmbedding *)

(* base * ((sf * max_len / max_pos) - (sf - 1)) ** (rotary_dim / (rotary_dim - 2)) *)
NTK_base_NoDivision(self) ==
    LET sf == self.scaling_factor
        max_len == RatMul(RatInt(self.max_position_embeddings), sf)
    IN  IF self.max_position_embeddings = 0 THEN Raise("ZeroDivisionError")
        ELSE IF self.rotary_dim = 2 THEN Raise("ZeroDivisionError")
        ELSE Ok(BaseTerm(self.base,
                   RatSub(RatMul(sf, max_len), RatSub(sf, One)),
                   Rat(self.rotary_dim, self.rotary_dim - 2)))

NTK_base(self) ==
    LET sf == self.scaling_factor
        max_len == RatMul(RatInt(self.max_position_embeddings), sf)
    IN  IF self.max_position_embeddings = 0 THEN Raise("ZeroDivisionError")
        ELSE IF self.rotary_dim = 2 THEN Raise("ZeroDivisionError")
        ELSE Ok(BaseTerm(self.base,
                   RatSub(RatDiv(RatMul(sf, max_len),
                                 RatInt(self.max_position_embeddings)),
                          RatSub(sf, One)),
                   Rat(self.rotary_dim, self.rotary_dim - 2)))

NTK_compute_cos_sin_cache(self) ==
    LET max_len == RatMul(RatInt(self.max_position_embeddings),
                          self.scaling_factor)
        base == NTK_base(self)
        inv_freq == compute_inv_freq(self, base.val)
        t == arange(max_len)
    IN  IF base.err # "" THEN base
        ELSE IF inv_freq.err # "" THEN inv_freq
        ELSE IF t.err # "" THEN t
        ELSE Ok(cat_cos_sin(einsum(t.val, inv_freq.val), Len(inv_freq.val),
                            UnitScale))

----------------------------------------------------------------------------
(* YaRN helpers *)

(* Naturals of any size, for the powers below: the limbs of a number in   *)
(* base LimbBase, least significant first, no leading zero limb; <<>> is 0. *)
LimbBase == 1000

RECURSIVE BigFromInt(_)
BigFromInt(n) ==
    IF n = 0 THEN <<>> ELSE <<n % LimbBase>> \o BigFromInt(n \div LimbBase)

(* The sequence f, every limb of it computed once *)
Limbs(f) == f \o <<>>

(* a without the zero limbs at its end *)
RECURSIVE BigStrip(_)
BigStrip(a) ==
    IF a # <<>> /\ a[Len(a)] = 0 THEN BigStrip(SubSeq(a, 1, Len(a) - 1)) ELSE a

(* One round of carrying: a limb keeps what it has below LimbBase and      *)
(* takes what the limb before it has above                                  *)
BigCarry(c) ==
    Limbs([i \in 1..(Len(c) + 1) |->
              (IF i <= Len(c) THEN c[i] % LimbBase ELSE 0)
              + (IF i > 1 THEN c[i - 1] \div LimbBase ELSE 0)])

(* The number whose limbs, not yet below LimbBase, are c *)
RECURSIVE BigNormal(_)
BigNormal(c) ==
    IF \E i \in 1..Len(c) : c[i] >= LimbBase THEN BigNormal(BigCarry(c))
    ELSE BigStrip(c)

(* a + b *)
BigAdd(a, b) ==
    BigNormal(Limbs([i \in 1..(IF Len(a) > Len(b) THEN Len(a) ELSE Len(b)) |->
                        (IF i <= Len(a) THEN a[i] ELSE 0)
                        + (IF i <= Len(b) THEN b[i] ELSE 0)]))

(* a * LimbBase ** m *)
BigShift(a, m) ==
    IF a = <<>> \/ m = 0 THEN a ELSE [i \in 1..m |-> 0] \o a

(* The sum of a[i] * b[k + 1 - i] over i in lo..hi, halving the range *)
RECURSIVE BigMulAt(_, _, _, _, _)
BigMulAt(a, b, k, lo, hi) ==
    IF lo = hi THEN a[lo] * b[k + 1 - lo]
    ELSE BigMulAt(a, b, k, lo, (lo + hi) \div 2)
         + BigMulAt(a, b, k, (lo + hi) \div 2 + 1, hi)

(* a * b: limb k of the product gathers the a[i] * b[j] with i + j = k + 1 *)
BigMul(a, b) ==
    IF a = <<>> \/ b = <<>> THEN <<>>
    ELSE IF a = <<1>> THEN b
    ELSE IF b = <<1>> THEN a
    ELSE BigNormal(Limbs([k \in 1..(Len(a) + Len(b) - 1) |->
                             BigMulAt(a, b, k,
                                      IF k > Len(b) THEN k + 1 - Len(b) ELSE 1,
                                      IF k < Len(a) THEN k ELSE Len(a))]))

BigSquareTimes(h, a) == BigMul(BigMul(h, h), a)

(* a ** n by squaring *)
RECURSIVE BigPow(_, _)
BigPow(a, n) ==
    IF n = 0 THEN <<1>>
    ELSE IF n = 1 THEN a
    ELSE BigSquareTimes(BigPow(a, n \div 2), IF n % 2 = 0 THEN <<1>> ELSE a)

RECURSIVE BigCmpFrom(_, _, _)
BigCmpFrom(a, b, i) ==
    IF i = 0 THEN 0
    ELSE IF a[i] # b[i] THEN (IF a[i] < b[i] THEN -1 ELSE 1)
    ELSE BigCmpFrom(a, b, i - 1)

(* -1, 0 or 1 as a < b, a = b or a > b *)
BigCmp(a, b) ==
    IF Len(a) # Len(b) THEN (IF Len(a) < Len(b) THEN -1 ELSE 1)
    ELSE BigCmpFrom(a, b, Len(a))

(* a // 2 *)
BigHalf(a) ==
    BigStrip(Limbs([i \in 1..Len(a) |->
                       (a[i] + IF i < Len(a) /\ a[i + 1] % 2 = 1
                               THEN LimbBase ELSE 0) \div 2]))

(* 2 ** n *)
TwoTo(n) == BigPow(<<2>>, n)

(* a >> s, and whether a bit that was shifted out was set *)
RECURSIVE BigShiftRight(_, _, _)
BigShiftRight(a, s, sticky) ==
    IF s = 0 \/ a = <<>> THEN [n |-> a, sticky |-> sticky]
    ELSE BigShiftRight(BigHalf(a), s - 1, sticky \/ a[1] % 2 = 1)

(* n / 2 ** s (s >= 1) rounded to the nearest integer, a tie to the even   *)
(* one: the rounding of a double's mantissa                                 *)
RoundToEven(n, s) ==
    LET cut == BigShiftRight(n, s - 1, FALSE)
        half == cut.n # <<>> /\ cut.n[1] % 2 = 1
        floor == BigHalf(cut.n)
        odd == floor # <<>> /\ floor[1] % 2 = 1
    IN  IF half /\ (cut.sticky \/ odd) THEN BigAdd(floor, <<1>>) ELSE floor

(* math.pi, the double 3.141592653589793, is PiMantissa * 2 ** -51 *)
PiMantissa == <<440, 28, 752, 237, 74, 7>>

(* The least s >= from with n < 2 ** (53 + s) *)
RECURSIVE BitsOver53(_, _)
BitsOver53(n, from) ==
    IF BigCmp(n, TwoTo(53 + from)) < 0 THEN from ELSE BitsOver53(n, from + 1)

(* The double num_rotations * 2 * math.pi (num_rotations > 0), as          *)
(* mantissa * 2 ** (shift - 51): the product 2 * num_rotations * PiMantissa *)
(* has more than 53 bits, and is rounded to 53                              *)
RotationsTimesTwoPi(num_rotations) ==
    LET n == BigMul(BigMul(BigFromInt(num_rotations), <<2>>), PiMantissa)
        s == BitsOver53(n, 1)
    IN  [mantissa |-> RoundToEven(n, s), shift |-> s]

RECURSIVE Log2Floor(_)
Log2Floor(b) == IF b < 2 THEN 0 ELSE 1 + Log2Floor(b \div 2)

RECURSIVE IntPow(_, _)
IntPow(b, e) == IF e = 0 THEN 1 ELSE b * IntPow(b, e - 1)

IsPowerOfTwo(n) == n >= 1 /\ IntPow(2, Log2Floor(n)) = n

(* Whether the double max_position_embeddings / (num_rotations * 2 *       *)
(* math.pi) is the integer b >= 1 (arguments > 0): the division rounds to b *)
(* where the real quotient is within half a unit in the last place of b,    *)
(* 2 ** (j - 53) above b and, b a power of two, 2 ** (j - 54) below it,     *)
(* j = floor(log2(b)).  With t = mantissa * 2 ** (shift - 51) the divisor,  *)
(*   b - below <= max_position_embeddings / t <= b + above                  *)
(* is compared in integers, all terms times 2 ** (105 - shift).             *)
QuotientIs(max_position_embeddings, num_rotations, b) ==
    LET t == RotationsTimesTwoPi(num_rotations)
        j == Log2Floor(b)
        lhs == BigMul(BigFromInt(max_position_embeddings), TwoTo(105 - t.shift))
        centre == BigMul(BigFromInt(b), TwoTo(54))
        above == TwoTo(j + 1)
        below == IF IsPowerOfTwo(b) THEN TwoTo(j) ELSE TwoTo(j + 1)
    IN  /\ BigCmp(lhs, BigMul(t.mantissa, BigAdd(centre, above))) <= 0
        /\ BigCmp(BigAdd(lhs, BigMul(t.mantissa, below)),
                  BigMul(t.mantissa, centre)) >= 0

(* 2 * math.pi, the double 6.283185307179586, cut after twelve decimals:   *)
(* 6.283 185 307 179                                                        *)
TwoPiDigits == <<6, 283, 185, 307, 179>>

(* How far, in units of the twelfth decimal, the last step below keeps its *)
(* bounds of 2 pi from the cut value.  The double the code computes is not  *)
(* the real dim * ln(q) / (2 * ln(base)): the product num_rotations * 2 *   *)
(* math.pi, the quotient q, the two logarithms of the C library, the        *)
(* product with dim and the last quotient are each rounded, together a few  *)
(* parts in 10 ** 15 of a logarithm below 22 (arguments of 32 bits).  A     *)
(* change of 2 pi by one part in 10 ** 12 moves ln(q) by more than that.    *)
RoundingMargin == 7

(* A number below 2 * math.pi * LimbBase ** m and one above it: 2 pi cut   *)
(* after m limbs and the next number after it, at the last limb of          *)
(* TwoPiDigits RoundingMargin further away                                  *)
TwoPiBelow(m) ==
    Limbs([i \in 1..(m + 1) |->
              TwoPiDigits[m + 2 - i]
              - IF i = 1 /\ m + 1 = Len(TwoPiDigits) THEN RoundingMargin ELSE 0])

TwoPiAbove(m) ==
    Limbs([i \in 1..(m + 1) |->
              TwoPiDigits[m + 2 - i]
              + IF i > 1 THEN 0
                ELSE IF m + 1 = Len(TwoPiDigits) THEN 1 + RoundingMargin ELSE 1])

(* The exception _yarn_find_correction_dim raises, "" when it returns *)
yarn_find_correction_dim_err(num_rotations, dim, base, max_position_embeddings) ==
    IF num_rotations = 0 THEN "ZeroDivisionError"
    ELSE IF max_position_embeddings = 0
            \/ (max_position_embeddings < 0) # (num_rotations < 0)
    THEN "ValueError"
    ELSE IF base <= 0 THEN "ValueError"
    ELSE IF base = 1 THEN "ZeroDivisionError"
    ELSE ""

(* Where x lies against lo <= hi: 1 above hi, -1 below lo, 0 otherwise *)
BigBetween(x, lo, hi) ==
    IF BigCmp(x, hi) > 0 THEN 1 ELSE IF BigCmp(x, lo) < 0 THEN -1 ELSE 0

(* Where mp lies against (2 pi) ** d * nr, 2 pi between TwoPiBelow(m) and  *)
(* TwoPiAbove(m)                                                            *)
AgainstTwoPi(mp, nr, d, m) ==
    BigBetween(BigShift(mp, m * d), BigMul(BigPow(TwoPiBelow(m), d), nr),
               BigMul(BigPow(TwoPiAbove(m), d), nr))

(* What is left of room for further factors once x ** n is taken out of   *)
(* it: 0 when x ** n is more than room                                      *)
RECURSIVE Room(_, _, _)
Room(room, x, n) ==
    IF n = 0 \/ x <= 1 \/ room = 0 THEN room ELSE Room(room \div x, x, n - 1)

(* Whether SmallAgainstTwoPi stays within 32-bit integers (el or er is 0) *)
SmallFits(mpe, nr, d, base, el, er) ==
    Room(Room(Room(2147483647, 629, d), IF mpe > nr THEN mpe ELSE nr, d),
         base, el + er) >= 1

(* Where mpe ** d * base ** el lies against (2 pi nr) ** d * base ** er,   *)
(* from 6.28 < 2 pi < 6.29                                                  *)
SmallAgainstTwoPi(mpe, nr, d, base, el, er) ==
    LET x == IntPow(100 * mpe, d) * IntPow(base, el)
        rest == IntPow(nr, d) * IntPow(base, er)
    IN  IF x > IntPow(629, d) * rest THEN 1
        ELSE IF x < IntPow(628, d) * rest THEN -1
        ELSE 0

(* s when it decides the comparison or no step is left, else further *)
Decided(s, last, further) == IF s # 0 \/ last THEN s ELSE further

(* Where (mpe / (2 pi nr)) ** d * base ** el lies against base ** er: 1    *)
(* above, -1 below, 0 so close that the rounding of the double computation  *)
(* decides.  Step m = 0 compares in 32-bit integers where the operands fit; *)
(* step m > 0 takes 2 pi cut after m limbs; a step that does not decide     *)
(* hands over to the next (0, 2, then the last), the last standing          *)
(* RoundingMargin off.                                                      *)
RECURSIVE yarn_find_correction_dim_sign(_, _, _, _, _, _, _)
yarn_find_correction_dim_sign(mpe, nr, d, base, el, er, m) ==
    Decided(IF m > 0
            THEN AgainstTwoPi(
                     BigMul(BigPow(BigFromInt(mpe), d), BigPow(BigFromInt(base), el)),
                     BigMul(BigPow(BigFromInt(nr), d), BigPow(BigFromInt(base), er)),
                     d, m)
            ELSE IF SmallFits(mpe, nr, d, base, el, er)
            THEN SmallAgainstTwoPi(mpe, nr, d, base, el, er)
            ELSE 0,
            m + 1 = Len(TwoPiDigits),
            yarn_find_correction_dim_sign(mpe, nr, d, base, el, er,
                IF m = 0 THEN 2 ELSE Len(TwoPiDigits) - 1))

(* The double x that _yarn_find_correction_dim(...) returns (dim # 0)      *)
(* against the integer k: 1 for x > k and -1 for x < k whatever the         *)
(* rounding, 0 where x is within rounding of k.  A negative dim turns the   *)
(* comparison round.  With q = max_position_embeddings / (num_rotations *   *)
(* 2 pi) and dim > 0:                                                       *)
(*   dim * log(q) / (2 * log(base)) > k  iff  q ** dim > base ** (2 k),     *)
(* both exponents divided by their gcd.                                     *)
yarn_find_correction_dim_against(k, num_rotations, dim, base, max_position_embeddings) ==
    LET kk == IF dim > 0 THEN k ELSE -k
        g == GCD(Abs(dim), 2 * Abs(kk))
        e == (2 * Abs(kk)) \div g
        s == yarn_find_correction_dim_sign(Abs(max_position_embeddings),
                 Abs(num_rotations), Abs(dim) \div g, base,
                 IF kk < 0 THEN e ELSE 0, IF kk < 0 THEN 0 ELSE e, 0)
    IN  IF dim > 0 THEN s ELSE -s

(* The largest integer the double is above whatever the rounding, between *)
(* lo, which it is above, and hi, which it is not: the middle is tried      *)
RECURSIVE LastBelowBetween(_, _, _, _, _, _)
LastBelowBetween(lo, hi, num_rotations, dim, base, max_position_embeddings) ==
    IF hi - lo = 1 THEN lo
    ELSE IF yarn_find_correction_dim_against((lo + hi) \div 2, num_rotations,
                dim, base, max_position_embeddings) = 1
    THEN LastBelowBetween((lo + hi) \div 2, hi, num_rotations, dim, base,
                          max_position_embeddings)
    ELSE LastBelowBetween(lo, (lo + hi) \div 2, num_rotations, dim, base,
                          max_position_embeddings)

(* The same, from k on, which the double is above: in steps that double *)
RECURSIVE LastBelowFrom(_, _, _, _, _, _)
LastBelowFrom(k, step, num_rotations, dim, base, max_position_embeddings) ==
    IF yarn_find_correction_dim_against(k + step, num_rotations, dim, base,
                                        max_position_embeddings) = 1
    THEN LastBelowFrom(k + step, 2 * step, num_rotations, dim, base,
                       max_position_embeddings)
    ELSE LastBelowBetween(k, k + step, num_rotations, dim, base,
                          max_position_embeddings)

(* The same, under k, which the double is not above *)
RECURSIVE LastBelowUnder(_, _, _, _, _, _)
LastBelowUnder(k, step, num_rotations, dim, base, max_position_embeddings) ==
    IF yarn_find_correction_dim_against(k - step, num_rotations, dim, base,
                                        max_position_embeddings) = 1
    THEN LastBelowBetween(k - step, k, num_rotations, dim, base,
                          max_position_embeddings)
    ELSE LastBelowUnder(k - step, 2 * step, num_rotations, dim, base,
                        max_position_embeddings)

(* A double, as far as math.floor and math.ceil tell doubles apart *)
Double(floor, ceil) == [floor |-> floor, ceil |-> ceil]

math_floor(x) == x.floor
math_ceil(x) == x.ceil

(* The doubles _yarn_find_correction_dim(...) can return, below the last   *)
(* integer the result is above whatever the rounding.  A result within      *)
(* rounding of the integer k = below + 1 is k exactly where the arithmetic  *)
(* of doubles says so: the quotient q is the double 1.0, whose logarithm is *)
(* 0.0, or q is the double base and dim a power of two, so that             *)
(* (dim * L) / (2 * L) with L = math.log(base) is dim / 2 without rounding. *)
(* Elsewhere the C library's logarithm decides, and the result is any of    *)
(* just below k, k, just above k.                                           *)
yarn_find_correction_dim_above(below, num_rotations, dim, base, max_position_embeddings) ==
    IF yarn_find_correction_dim_against(below + 1, num_rotations, dim, base,
                                        max_position_embeddings) = -1
    THEN {Double(below, below + 1)}
    ELSE IF below + 1 = 0
            /\ QuotientIs(Abs(max_position_embeddings), Abs(num_rotations), 1)
    THEN {Double(0, 0)}
    ELSE IF 2 * (below + 1) = dim /\ IsPowerOfTwo(Abs(dim))
            /\ QuotientIs(Abs(max_position_embeddings), Abs(num_rotations), base)
    THEN {Double(below + 1, below + 1)}
    ELSE {Double(below, below + 1), Double(below + 1, below + 1),
          Double(below + 1, below + 2)}

(* The doubles (dim * math.log(max_position_embeddings / (num_rotations *  *)
(* 2 * math.pi))) / (2 * math.log(base)) can be, for arguments it raises    *)
(* nothing for; 0 * log(q) is 0.0                                           *)
yarn_find_correction_dim(num_rotations, dim, base, max_position_embeddings) ==
    IF dim = 0 THEN {Double(0, 0)}
    ELSE yarn_find_correction_dim_above(
             IF yarn_find_correction_dim_against(0, num_rotations, dim, base,
                                                 max_position_embeddings) = 1
             THEN LastBelowFrom(0, 1, num_rotations, dim, base,
                                max_position_embeddings)
             ELSE LastBelowUnder(0, 1, num_rotations, dim, base,
                                 max_position_embeddings),
             num_rotations, dim, base, max_position_embeddings)

(* max(low, 0), min(high, dim - 1) *)
ClampRange(low, high, dim) ==
    [low |-> IF low > 0 THEN low ELSE 0,
     high |-> IF high < dim - 1 THEN high ELSE dim - 1]

(* the ranges with the two rotation counts exchanged *)
yarn_find_correction_range_Swapped(low_rot, high_rot, dim, base, max_position_embeddings) ==
    LET e1 == yarn_find_correction_dim_err(low_rot, dim, base,
                                           max_position_embeddings)
        e2 == yarn_find_correction_dim_err(high_rot, dim, base,
                                           max_position_embeddings)
    IN  IF e1 # "" THEN {Raise(e1)}
        ELSE IF e2 # "" THEN {Raise(e2)}
        ELSE {Ok(ClampRange(math_floor(x[1]), math_ceil(x[2]), dim)) :
                 x \in IF low_rot = high_rot
                       THEN {<<y, y>> :
                                y \in yarn_find_correction_dim(low_rot, dim,
                                          base, max_position_embeddings)}
                       ELSE yarn_find_correction_dim(high_rot, dim, base,
                                                     max_position_embeddings)
                            \X yarn_find_correction_dim(low_rot, dim, base,
                                   max_position_embeddings)}

(* The results _yarn_find_correction_range(...) can have: the two calls of *)
(* _yarn_find_correction_dim, the same double from both where their         *)
(* arguments are the same                                                   *)
yarn_find_correction_range(low_rot, high_rot, dim, base, max_position_embeddings) ==
    LET e1 == yarn_find_correction_dim_err(low_rot, dim, base,
                                           max_position_embeddings)
        e2 == yarn_find_correction_dim_err(high_rot, dim, base,
                                           max_position_embeddings)
    IN  IF e1 # "" THEN {Raise(e1)}
        ELSE IF e2 # "" THEN {Raise(e2)}
        ELSE {Ok(ClampRange(math_floor(x[1]), math_ceil(x[2]), dim)) :
                 x \in IF low_rot = high_rot
                       THEN {<<y, y>> :
                                y \in yarn_find_correction_dim(low_rot, dim,
                                          base, max_position_embeddings)}
                       ELSE yarn_find_correction_dim(low_rot, dim, base,
                                                     max_position_embeddings)
                            \X yarn_find_correction_dim(high_rot, dim, base,
                                   max_position_embeddings)}

RatClamp01(x) ==
    IF x = NaN THEN NaN
    ELSE IF x = PosInf THEN One
    ELSE IF x = NegInf THEN Zero
    ELSE IF RatLt(x, Zero) THEN Zero ELSE IF RatLt(One, x) THEN One ELSE x

(* the ramp without the nudge of high *)
yarn_linear_ramp_mask_NoNudge(low, high, dim) ==
    [j \in 1..dim |->
        RatClamp01(FMul(RatSub(RatInt(j - 1), low),
                        FInv(RatSub(high, low))))]

(* low and high are floats; a tensor divided by 0.0 is inf or nan *)
yarn_linear_ramp_mask(low, high, dim) ==
    LET hi == IF low = high THEN RatAdd(high, Rat(1, 1000)) ELSE high
    IN  [j \in 1..dim |->
            RatClamp01(FMul(RatSub(RatInt(j - 1), low),
                            FInv(RatSub(hi, low))))]

(* 1.0 if scale <= 1, else 0.1 * math.log(scale) + 1.0 (as the s of a Scale) *)
yarn_get_mscale(scale) == IF RatLe(scale, One) THEN One ELSE scale

----------------------------------------------------------------------------
(* YaRNScalingRotaryEmbedding *)

YaRN_mscale(self) == Scale(self.attn_factor, yarn_get_mscale(self.scaling_factor))

(* inv_freq_interpolation * (1 - inv_freq_mask)                             *)
(*     + inv_freq_extrapolation * inv_freq_mask, per channel               *)
YaRN_blend_DropsMask(interpolation, extrapolation, mask) ==
    FAdd(FMul(interpolation, FAdd(One, FMul(RatInt(-1), mask))), extrapolation)

YaRN_blend(interpolation, extrapolation, mask) ==
    FAdd(FMul(interpolation, FAdd(One, FMul(RatInt(-1), mask))),
         FMul(extrapolation, mask))

(* (1 - _yarn_linear_ramp_mask(low, high, dim)) * self.extrapolation_factor *)
YaRN_inv_freq_mask(low, high, dim, extrapolation_factor) ==
    LET ramp == yarn_linear_ramp_mask(low, high, dim)
    IN  [j \in 1..dim |->
            FMul(FAdd(One, FMul(RatInt(-1), ramp[j])), extrapolation_factor)]

(* a[i] of a 1-d tensor broadcast against another *)
Bcast(a, i) == IF Len(a) = 1 THEN a[1] ELSE a[i]

(* _compute_inv_freq from the call of _yarn_find_correction_range on, given *)
(* what that call came to (rotary_dim >= 0)                                 *)
YaRN_compute_inv_freq_with(self, scaling_factor, range) ==
    LET n == HalfCount(self.rotary_dim)
        pos_freqs == [i \in 1..n |->
                         PowTerm(PlainBase(self.base),
                                 Rat(2 * (i - 1), self.rotary_dim))]
        extrapolation == One
        interpolation == FInv(scaling_factor)
        m == self.rotary_dim \div 2
        inv_freq_mask == YaRN_inv_freq_mask(RatInt(range.val.low),
                             RatInt(range.val.high), m,
                             self.extrapolation_factor)
        size == IF n = m \/ m = 1 THEN n ELSE m
    IN  IF range.err # "" THEN Raise(range.err)
        ELSE IF n # m /\ n # 1 /\ m # 1 THEN Raise("RuntimeError")
        ELSE Ok([i \in 1..size |->
                    Freq(YaRN_blend(interpolation, extrapolation,
                                    Bcast(inv_freq_mask, i)),
                         Bcast(pos_freqs, i))])

(* The results _compute_inv_freq can have: one for each the correction     *)
(* range can have                                                           *)
YaRN_compute_inv_freq(self, scaling_factor) ==
    IF self.rotary_dim < 0 THEN {Raise("RuntimeError")}
    ELSE {YaRN_compute_inv_freq_with(self, scaling_factor, range) :
             range \in yarn_find_correction_range(self.beta_fast,
                           self.beta_slow, self.rotary_dim, self.base,
                           self.max_position_embeddings)}

(* _compute_cos_sin_cache from the arange on, given what _compute_inv_freq *)
(* came to and the factor the cos and sin are multiplied by                 *)
YaRN_compute_cos_sin_cache_with(self, inv_freq, mscale) ==
    LET t == arange(RatMul(RatInt(self.max_position_embeddings),
                           self.scaling_factor))
    IN  IF inv_freq.err # "" THEN inv_freq
        ELSE IF t.err # "" THEN t
        ELSE Ok(cat_cos_sin(einsum(t.val, inv_freq.val), Len(inv_freq.val),
                            mscale))

(* the YaRN caches without the magnitude correction *)
YaRN_compute_cos_sin_cache_Unscaled(self) ==
    {YaRN_compute_cos_sin_cache_with(self, inv_freq, UnitScale) :
        inv_freq \in YaRN_compute_inv_freq(self, self.scaling_factor)}

(* The results _compute_cos_sin_cache can have *)
YaRN_compute_cos_sin_cache(self) ==
    {YaRN_compute_cos_sin_cache_with(self, inv_freq, YaRN_mscale(self)) :
        inv_freq \in YaRN_compute_inv_freq(self, self.scaling_factor)}

----------------------------------------------------------------------------
(* Constructor calls *)

MakeArgs(v, c, sf, ef, af, bf, bs) ==
    [variant |-> v,
     head_size |-> c.head_size,
     rotary_dim |-> c.rotary_dim,
     max_position_embeddings |-> c.max_position_embeddings,
     base |-> c.base,
     is_neox_style |-> c.is_neox_style,
     scaling_factor |-> sf,
     extrapolation_factor |-> ef,
     attn_factor |-> af,
     beta_fast |-> bf,
     beta_slow |-> bs]

(* the keyword defaults of YaRNScalingRotaryEmbedding.__init__ *)
DefaultBetaFast == 32
DefaultBetaSlow == 1

ArgSet(C, SF, EF, AF, BF, BS) ==
    {MakeArgs("base", c, One, One, One, DefaultBetaFast, DefaultBetaSlow) :
        c \in C}
    \cup {MakeArgs(v, c, sf, One, One, DefaultBetaFast, DefaultBetaSlow) :
        v \in {"linear", "ntk"}, c \in C, sf \in SF}
    \cup {MakeArgs("yarn", c, sf, ef, af, bf, bs) :
        c \in C, sf \in SF, ef \in EF, af \in AF, bf \in BF, bs \in BS}

ScalingFactors == {Rat(-1, 1), Zero, Rat(1, 2), One, Rat(3, 2), RatInt(2)}
DTypes == {"float32", "float16"}

(* bases tried with the base variant beyond those every variant is given: *)
(* the degenerate 0 and the customary 10000                                *)
BaseVariantBases == {0, 10000}

(* Arguments whose quotient max_position_embeddings / (num_rotations * 2 * *)
(* math.pi) is a power of two as a double: 491701844 / (78256779 * 2 *      *)
(* math.pi) is the double 1.0, and doubling an argument doubles or halves   *)
(* the quotient without rounding                                            *)
NearTiePositions == {491701844, 983403688, 1966807376}
NearTieRotations ==
    {<<78256779, 78256779>>, <<156513558, 78256779>>, <<156513558, 156513558>>}

BuildArgs ==
    {MakeArgs("base", c, One, One, One, DefaultBetaFast, DefaultBetaSlow) :
        c \in [head_size : {4},
               rotary_dim : 0..MaxRotaryDim,
               max_position_embeddings : 0..MaxPositions,
               base : BaseVariantBases,
               is_neox_style : {TRUE}]}
    \cup
    ArgSet([head_size : {4},
            rotary_dim : 0..MaxRotaryDim,
            max_position_embeddings : (0..MaxPositions) \cup {LongContext},
            base : {2, 4},
            is_neox_style : {TRUE}],
           ScalingFactors,
           {Zero, Rat(1, 2), One},
           {One, RatInt(2)},
           {1, 2, 4},
           {1, 2})
    \cup
    {MakeArgs("yarn", c, Zero, One, One, b[1], b[2]) :
        c \in [head_size : {4},
               rotary_dim : {2, 4, 6},
               max_position_embeddings : NearTiePositions,
               base : {2},
               is_neox_style : {TRUE}],
        b \in NearTieRotations}

----------------------------------------------------------------------------
(* The object under construction *)

NoRef == 0

NewLayer ==
    [status |-> "new", error |-> "", head_size |-> 0, is_neox_style |-> FALSE,
     mscale |-> UnitScale, cos_sin_cache |-> NoRef]

(* RotaryEmbedding.__init__ once the subclass attributes are set: the       *)
(* attributes, then the cache computed, cast and registered; an exception   *)
(* of the computation leaves the constructor before register_buffer.        *)
RotaryEmbedding_init(self, cache, mscale) ==
    IF cache.err # ""
    THEN /\ layer' = [status |-> "error", error |-> cache.err,
                      head_size |-> self.head_size,
                      is_neox_style |-> self.is_neox_style,
                      mscale |-> mscale,
                      cos_sin_cache |-> NoRef]
         /\ heap' = heap
    ELSE /\ heap' = IF default_dtype = cache.val.dtype
                    THEN Append(heap, cache.val)
                    ELSE heap \o <<cache.val, to_dtype(cache.val, default_dtype)>>
         /\ layer' = [status |-> "ok", error |-> "",
                      head_size |-> self.head_size,
                      is_neox_style |-> self.is_neox_style,
                      mscale |-> mscale,
                      cos_sin_cache |-> Len(heap')]

ConstructRotaryEmbedding ==
    /\ layer.status = "new"
    /\ args.variant = "base"
    /\ RotaryEmbedding_init(args, compute_cos_sin_cache(args), UnitScale)
    /\ UNCHANGED <<config, ramp_call, args, default_dtype, pc, positions, query, key, pending, call>>

ConstructLinearScaling ==
    /\ layer.status = "new"
    /\ args.variant = "linear"
    /\ RotaryEmbedding_init(args, Linear_compute_cos_sin_cache(args), UnitScale)
    /\ UNCHANGED <<config, ramp_call, args, default_dtype, pc, positions, query, key, pending, call>>

ConstructDynamicNTKScaling ==
    /\ layer.status = "new"
    /\ args.variant = "ntk"
    /\ RotaryEmbedding_init(args, NTK_compute_cos_sin_cache(args), UnitScale)
    /\ UNCHANGED <<config, ramp_call, args, default_dtype, pc, positions, query, key, pending, call>>

ConstructYaRNScaling ==
    /\ layer.status = "new"
    /\ args.variant = "yarn"
    /\ \E cache \in YaRN_compute_cos_sin_cache(args) :
           RotaryEmbedding_init(args, cache, YaRN_mscale(args))
    /\ UNCHANGED <<config, ramp_call, args, default_dtype, pc, positions, query, key, pending, call>>

Construct ==
    \/ ConstructRotaryEmbedding
    \/ ConstructLinearScaling
    \/ ConstructDynamicNTKScaling
    \/ ConstructYaRNScaling

----------------------------------------------------------------------------
(* Construction alone, over the wide argument set *)

NoCall == [cache |-> NoRef, head_size |-> 0, is_neox_style |-> FALSE]

NoRampCall ==
    [status |-> "none", low |-> Zero, high |-> Zero, dim |-> 0,
     extrapolation_factor |-> Zero, ramp |-> <<>>, mask |-> <<>>]

None == <<>>
Some(v) == <<v>>

NoConfig ==
    [status |-> "none", hf_config |-> None, max_model_len |-> None,
     error |-> "", result |-> 0]

InitWorkers ==
    /\ ramp_call = NoRampCall
    /\ config = NoConfig
    /\ pc = [w \in Workers |-> "idle"]
    /\ positions = [w \in Workers |-> <<>>]
    /\ query = [w \in Workers |-> <<>>]
    /\ key = [w \in Workers |-> <<>>]
    /\ pending = [w \in Workers |-> {}]
    /\ call = [w \in Workers |-> NoCall]

InitBuild ==
    /\ args \in BuildArgs
    /\ default_dtype \in DTypes
    /\ layer = NewLayer
    /\ heap = <<>>
    /\ InitWorkers

NextBuild == Construct

SpecBuild == InitBuild /\ [][NextBuild]_vars

----------------------------------------------------------------------------
(* forward() and the rotation primitive pos_encoding_ops.rotary_embedding   *)

ServeCommon ==
    [head_size : {4},
     rotary_dim : {2, 4},
     max_position_embeddings : {1},
     base : {2},
     is_neox_style : BOOLEAN]

ServeArgs ==
    {MakeArgs("base", c, One, One, One, DefaultBetaFast, DefaultBetaSlow) :
        c \in ServeCommon}
    \cup {MakeArgs("linear", c, RatInt(2), One, One, DefaultBetaFast,
                   DefaultBetaSlow) : c \in ServeCommon}
    \cup {MakeArgs("ntk", c, One, One, One, DefaultBetaFast,
                   DefaultBetaSlow) : c \in ServeCommon}
    \cup {MakeArgs("yarn", c, RatInt(2), One, One, 1, 1) : c \in ServeCommon}
    \cup {MakeArgs("yarn", c, One, One, RatInt(2), 1, 1) :
              c \in {s \in ServeCommon : s.rotary_dim = 2}}

Widths == {2, 4}
TokenCounts == {1, 2}

(* A channel of a caller's buffer: where it came from and the cache         *)
(* (cos, sin) pairs its rotation pair has been rotated by, oldest first.    *)
Channel(buf, tok, ch) == [buf |-> buf, tok |-> tok, ch |-> ch, rot |-> <<>>]

Buffer(buf, n, width) ==
    [t \in 1..n |-> [c \in 1..width |-> Channel(buf, t, c)]]

(* What an out-of-bounds access may leave in a channel *)
Garbage(g) == Channel("garbage", g, 0)

(* The index of the rotation pair channel c (1-based) belongs to *)
PairOf(c, rot_dim, is_neox_style) ==
    IF is_neox_style
    THEN IF c <= rot_dim \div 2 THEN c ELSE c - rot_dim \div 2
    ELSE (c + 1) \div 2

(* One token vector rotated by one cache row: the first rot_dim channels    *)
(* rotate pairwise, the channels beyond rot_dim stay as they are.           *)
Rotate(v, row, rot_dim, is_neox_style) ==
    [c \in 1..Len(v) |->
        IF c <= rot_dim
        THEN [v[c] EXCEPT !.rot =
                 Append(@, <<row[PairOf(c, rot_dim, is_neox_style)],
                             row[rot_dim \div 2
                                 + PairOf(c, rot_dim, is_neox_style)]>>)]
        ELSE v[c]]

(* The precondition of the primitive for token t of worker w's call *)
TokenInBounds(cache, pos, width) ==
    /\ pos < cache.shape[1]
    /\ width >= cache.shape[2]

(* RotaryEmbedding.forward: hands the caller's buffers, self.head_size,     *)
(* self.cos_sin_cache and self.is_neox_style to the primitive, unchecked,   *)
(* and returns the same buffers.                                            *)
ForwardCall(w, cache_ref, heap_after) ==
    /\ layer.status = "ok"
    /\ pc[w] = "idle"
    /\ \E n \in TokenCounts, width \in Widths :
         \E pos \in [1..n -> 0..MaxPositionIndex] :
            /\ positions' = [positions EXCEPT ![w] = pos]
            /\ query' = [query EXCEPT ![w] = Buffer("query", n, width)]
            /\ key' = [key EXCEPT ![w] = Buffer("key", n, width)]
            /\ pending' = [pending EXCEPT ![w] = 1..n]
    /\ call' = [call EXCEPT ![w] = [cache |-> cache_ref,
                                    head_size |-> layer.head_size,
                                    is_neox_style |-> layer.is_neox_style]]
    /\ pc' = [pc EXCEPT ![w] = "kernel"]
    /\ heap' = heap_after
    /\ UNCHANGED <<config, ramp_call, args, default_dtype, layer>>

(* a forward() that hands the primitive a clone of the cache *)
Forward_PassesCopy(w) ==
    ForwardCall(w, Len(heap) + 1, Append(heap, heap[layer.cos_sin_cache]))

(* a forward() that first zeroes the cache rows in place *)
Forward_ClearsCache(w) ==
    ForwardCall(w, layer.cos_sin_cache,
        [heap EXCEPT ![layer.cos_sin_cache].data =
            [p \in 1..Len(@) |-> [j \in 1..Len(@[p]) |-> ConstZero]]])

Forward(w) == ForwardCall(w, layer.cos_sin_cache, heap)

(* The primitive rotates one token of the call, in place *)
RotateToken(w) ==
    /\ pc[w] = "kernel"
    /\ \E t \in pending[w] :
         LET cache == heap[call[w].cache]
             pos == positions[w][t]
         IN  /\ TokenInBounds(cache, pos, Len(query[w][t]))
             /\ query' = [query EXCEPT ![w][t] =
                    Rotate(@, cache.data[pos + 1], cache.shape[2],
                           call[w].is_neox_style)]
             /\ key' = [key EXCEPT ![w][t] =
                    Rotate(@, cache.data[pos + 1], cache.shape[2],
                           call[w].is_neox_style)]
             /\ pending' = [pending EXCEPT ![w] = @ \ {t}]
    /\ UNCHANGED <<config, ramp_call, args, default_dtype, layer, heap, pc, positions, call>>

(* Outside its precondition the primitive reads or writes out of bounds:    *)
(* the token ends with arbitrary contents                                   *)
RotateTokenOutOfBounds(w) ==
    /\ pc[w] = "kernel"
    /\ \E t \in pending[w], g \in {1, 2} :
         /\ ~TokenInBounds(heap[call[w].cache], positions[w][t],
                           Len(query[w][t]))
         /\ query' = [query EXCEPT ![w][t] = [c \in 1..Len(@) |-> Garbage(g)]]
         /\ key' = [key EXCEPT ![w][t] = [c \in 1..Len(@) |-> Garbage(g)]]
         /\ pending' = [pending EXCEPT ![w] = @ \ {t}]
    /\ UNCHANGED <<config, ramp_call, args, default_dtype, layer, heap, pc, positions, call>>

(* ... or the device faults *)
KernelFault(w) ==
    /\ pc[w] = "kernel"
    /\ \E t \in pending[w] :
         ~TokenInBounds(heap[call[w].cache], positions[w][t], Len(query[w][t]))
    /\ pc' = [pc EXCEPT ![w] = "fault"]
    /\ UNCHANGED <<config, ramp_call, args, default_dtype, layer, heap, positions, query, key,
                   pending, call>>

KernelDone(w) ==
    /\ pc[w] = "kernel"
    /\ pending[w] = {}
    /\ pc' = [pc EXCEPT ![w] = "done"]
    /\ UNCHANGED <<config, ramp_call, args, default_dtype, layer, heap, positions, query, key,
                   pending, call>>

(* The caller takes its rotated buffers away; the worker is free again *)
Release(w) ==
    /\ pc[w] = "done"
    /\ pc' = [pc EXCEPT ![w] = "idle"]
    /\ positions' = [positions EXCEPT ![w] = <<>>]
    /\ query' = [query EXCEPT ![w] = <<>>]
    /\ key' = [key EXCEPT ![w] = <<>>]
    /\ call' = [call EXCEPT ![w] = NoCall]
    /\ UNCHANGED <<config, ramp_call, args, default_dtype, layer, heap, pending>>

Init ==
    /\ args \in ServeArgs
    /\ default_dtype = "float16"
    /\ layer = NewLayer
    /\ heap = <<>>
    /\ InitWorkers

Next ==
    \/ Construct
    \/ \E w \in Workers : Forward(w)
    \/ \E w \in Workers : RotateToken(w)
    \/ \E w \in Workers : RotateTokenOutOfBounds(w)
    \/ \E w \in Workers : KernelFault(w)
    \/ \E w \in Workers : KernelDone(w)
    \/ \E w \in Workers : Release(w)

Spec == Init /\ [][Next]_vars

----------------------------------------------------------------------------
(* _yarn_linear_ramp_mask on its own, and the mask _compute_inv_freq makes  *)
(* of its result                                                            *)

RampEnds == {RatInt(k) : k \in -2..4} \cup {Rat(1, 2), Rat(3, 2)}
RampDims == 0..4
ExtrapolationFactors == {RatInt(-1), Zero, Rat(1, 2), One, RatInt(2)}

InitRamp ==
    /\ \E low \in RampEnds, high \in RampEnds, dim \in RampDims,
          ef \in ExtrapolationFactors :
          ramp_call = [status |-> "called", low |-> low, high |-> high,
                       dim |-> dim, extrapolation_factor |-> ef,
                       ramp |-> <<>>, mask |-> <<>>]
    /\ args = MakeArgs("yarn", [head_size |-> 4, rotary_dim |-> 4,
                                max_position_embeddings |-> 1, base |-> 2,
                                is_neox_style |-> TRUE],
                       One, One, One, DefaultBetaFast, DefaultBetaSlow)
    /\ default_dtype = "float32"
    /\ layer = NewLayer
    /\ heap = <<>>
    /\ config = NoConfig
    /\ pc = [w \in Workers |-> "idle"]
    /\ positions = [w \in Workers |-> <<>>]
    /\ query = [w \in Workers |-> <<>>]
    /\ key = [w \in Workers |-> <<>>]
    /\ pending = [w \in Workers |-> {}]
    /\ call = [w \in Workers |-> NoCall]

LinearRampMask ==
    /\ ramp_call.status = "called"
    /\ ramp_call' =
         [ramp_call EXCEPT
            !.status = "returned",
            !.ramp = yarn_linear_ramp_mask(ramp_call.low, ramp_call.high,
                                           ramp_call.dim),
            !.mask = YaRN_inv_freq_mask(ramp_call.low, ramp_call.high,
                         ramp_call.dim, ramp_call.extrapolation_factor)]
    /\ UNCHANGED <<config, args, default_dtype, layer, heap, pc, positions,
                   query, key, pending, call>>

NextRamp == LinearRampMask

SpecRamp == InitRamp /\ [][NextRamp]_vars

----------------------------------------------------------------------------
(* _get_and_verify_max_len (aphrodite/common/config.py) and the layer built *)
(* from the same model config                                               *)

possible_keys ==
    <<"max_position_embeddings", "n_positions", "max_seq_len",
      "max_sequence_length", "max_seq_length", "seq_len">>

(* the loop over possible_keys from key i on; None stands for float("inf") *)
RECURSIVE derived_max_model_len(_, _, _)
derived_max_model_len(hf_config, i, derived) ==
    IF i > Len(possible_keys) THEN derived
    ELSE LET max_len_key == hf_config.attrs[possible_keys[i]]
         IN  derived_max_model_len(hf_config, i + 1,
                 IF max_len_key = None THEN derived
                 ELSE IF derived = None THEN max_len_key
                 ELSE IF max_len_key[1] < derived[1] THEN max_len_key
                 ELSE derived)

(* int(x): truncation towards zero *)
PyInt(x) == IF x[1] >= 0 THEN x[1] \div x[2] ELSE -((-x[1]) \div x[2])

(* the function without the comparison with the derived length *)
get_and_verify_max_len_Unverified(hf_config, max_model_len) ==
    LET keys_min == derived_max_model_len(hf_config, 1, None)
        rope_scaling == hf_config.rope_scaling
    IN  IF keys_min = None THEN Raise("ValueError")
        ELSE IF rope_scaling # None /\ rope_scaling[1].factor = None
             THEN Raise("AssertionError")
        ELSE LET derived ==
                     IF rope_scaling = None THEN RatInt(keys_min[1])
                     ELSE RatMul(RatInt(keys_min[1]),
                                 rope_scaling[1].factor[1])
             IN  IF max_model_len = None THEN Ok(PyInt(derived))
                 ELSE Ok(max_model_len[1])

get_and_verify_max_len(hf_config, max_model_len) ==
    LET keys_min == derived_max_model_len(hf_config, 1, None)
        rope_scaling == hf_config.rope_scaling
    IN  IF keys_min = None THEN Raise("ValueError")
        ELSE IF rope_scaling # None /\ rope_scaling[1].factor = None
             THEN Raise("AssertionError")
        ELSE LET derived ==
                     IF rope_scaling = None THEN RatInt(keys_min[1])
                     ELSE RatMul(RatInt(keys_min[1]),
                                 rope_scaling[1].factor[1])
             IN  IF max_model_len = None THEN Ok(PyInt(derived))
                 ELSE IF RatLt(derived, RatInt(max_model_len[1]))
                      THEN Raise("ValueError")
                 ELSE Ok(max_model_len[1])

(* Model configs: max_position_embeddings and max_seq_len present or not,   *)
(* rope_scaling absent, without a factor, or with one                       *)
HfConfigs ==
    {[attrs |-> [k \in {possible_keys[i] : i \in 1..Len(possible_keys)} |->
                    CASE k = "max_position_embeddings" -> m
                      [] k = "max_seq_len" -> q
                      [] OTHER -> None],
      rope_scaling |-> r] :
        m \in {None} \cup {Some(n) : n \in 0..MaxPositions},
        q \in {None, Some(2)},
        r \in {None, Some([factor |-> None])}
               \cup {Some([factor |-> Some(f)]) : f \in ScalingFactors}}

UserMaxModelLens == {None} \cup {Some(n) : n \in 0..7}

(* The layer a model builds from hf_config: the base variant without        *)
(* rope_scaling, a scaled one of max_position_embeddings and factor with it *)
ConfigArgs(hf_config) ==
    LET c == [head_size |-> 4, rotary_dim |-> 4,
              max_position_embeddings |->
                  hf_config.attrs["max_position_embeddings"][1],
              base |-> 2, is_neox_style |-> TRUE]
    IN  IF hf_config.rope_scaling = None
        THEN {MakeArgs("base", c, One, One, One, DefaultBetaFast,
                       DefaultBetaSlow)}
        ELSE {MakeArgs(v, c, hf_config.rope_scaling[1].factor[1], One, One,
                       DefaultBetaFast, DefaultBetaSlow) :
                 v \in {"linear", "ntk"}}
             \cup {MakeArgs("yarn", c, hf_config.rope_scaling[1].factor[1],
                            One, One, 1, 1)}

(* A config no layer can be built from *)
Unbuildable(hf_config) ==
    \/ hf_config.attrs["max_position_embeddings"] = None
    \/ hf_config.rope_scaling # None /\ hf_config.rope_scaling[1].factor = None

InitConfig ==
    /\ \E hf_config \in HfConfigs, max_model_len \in UserMaxModelLens :
          /\ config = [status |-> "called", hf_config |-> Some(hf_config),
                       max_model_len |-> max_model_len,
                       error |-> "", result |-> 0]
          /\ IF Unbuildable(hf_config)
             THEN args = MakeArgs("none", [head_size |-> 4, rotary_dim |-> 4,
                                   max_position_embeddings |-> 0, base |-> 2,
                                   is_neox_style |-> TRUE],
                                  One, One, One, DefaultBetaFast,
                                  DefaultBetaSlow)
             ELSE args \in ConfigArgs(hf_config)
    /\ default_dtype = "float16"
    /\ layer = NewLayer
    /\ heap = <<>>
    /\ ramp_call = NoRampCall
    /\ pc = [w \in Workers |-> "idle"]
    /\ positions = [w \in Workers |-> <<>>]
    /\ query = [w \in Workers |-> <<>>]
    /\ key = [w \in Workers |-> <<>>]
    /\ pending = [w \in Workers |-> {}]
    /\ call = [w \in Workers |-> NoCall]

GetAndVerifyMaxLen ==
    /\ config.status = "called"
    /\ LET r == get_and_verify_max_len(config.hf_config[1],
                                       config.max_model_len)
       IN  config' = IF r.err # ""
                     THEN [config EXCEPT !.status = "raised", !.error = r.err]
                     ELSE [config EXCEPT !.status = "returned",
                                         !.result = r.val]
    /\ UNCHANGED <<args, default_dtype, layer, heap, pc, positions, query,
                   key, pending, call, ramp_call>>

(* The model is loaded, and its rotary layer built, once the config stands *)
LoadModel ==
    /\ config.status = "returned"
    /\ Construct

NextConfig ==
    \/ GetAndVerifyMaxLen
    \/ LoadModel

SpecConfig == InitConfig /\ [][NextConfig]_vars

----------------------------------------------------------------------------
(* Properties *)

Constructed == layer.status # "new"

(* The caches the constructor call of this behaviour can register: one,    *)
(* but for a YaRN layer whose correction dimension is within rounding of an *)
(* integer                                                                  *)
BuiltCaches ==
    LET cs == CASE args.variant = "base" -> {compute_cos_sin_cache(args)}
                [] args.variant = "linear" -> {Linear_compute_cos_sin_cache(args)}
                [] args.variant = "ntk" -> {NTK_compute_cos_sin_cache(args)}
                [] OTHER -> YaRN_compute_cos_sin_cache(args)
    IN  {to_dtype(c.val, default_dtype) : c \in cs}

Scaled == args.variant \in {"linear", "ntk", "yarn"}

(* C1: a constructor called with an odd rotary_dim raises and registers no *)
(* cos_sin_cache.                                                           *)
C1_OddRotaryDimRejected ==
    (Constructed /\ args.rotary_dim % 2 = 1)
        => (layer.status = "error" /\ layer.cos_sin_cache = NoRef)

(* C2: a constructed layer's cache has max_position_embeddings rows (base) *)
(* or max_position_embeddings * scaling_factor rows (scaled variants) and   *)
(* rotary_dim columns, cosines in the first half and sines in the second.   *)
C2_CacheShape ==
    layer.status = "ok" =>
        LET c == heap[layer.cos_sin_cache]
            rows == IF Scaled
                    THEN RatMul(RatInt(args.max_position_embeddings),
                                args.scaling_factor)
                    ELSE RatInt(args.max_position_embeddings)
        IN  /\ RatInt(c.shape[1]) = rows
            /\ c.shape[2] = args.rotary_dim
            /\ Len(c.data) = c.shape[1]
            /\ \A p \in 1..Len(c.data) :
                 /\ Len(c.data[p]) = args.rotary_dim
                 /\ \A j \in 1..Len(c.data[p]) :
                      c.data[p][j].fn \in
                          (IF 2 * j <= args.rotary_dim THEN {"cos", "const"}
                           ELSE {"sin", "const"})

(* C3: the cache is registered by the constructor and by nothing else; no  *)
(* step after construction changes the layer, the registered reference or   *)
(* the tensor behind it, and every call of the primitive gets that very     *)
(* reference.                                                               *)
C3_CacheWrittenOnce ==
    [][/\ layer.status = "new" => layer.cos_sin_cache = NoRef
       /\ layer'.cos_sin_cache # layer.cos_sin_cache => layer.status = "new"
       /\ layer.status = "ok" =>
             /\ layer' = layer
             /\ heap'[layer.cos_sin_cache] = heap[layer.cos_sin_cache]
       /\ \A w \in Workers :
             (call'[w] # call[w] /\ call'[w] # NoCall)
                 => call'[w].cache = layer.cos_sin_cache]_vars

C3_Witness ==
    /\ pc["w1"] = "done"
    /\ pc["w2"] = "kernel"
    /\ Len(positions["w1"]) = 2
    /\ call["w1"].cache = layer.cos_sin_cache
    /\ call["w2"].cache = layer.cos_sin_cache

(* C4: the dynamic-NTK constructor called with rotary_dim <= 2 raises.     *)
C4_SmallRotaryDimNTKRejected ==
    (Constructed /\ args.variant = "ntk" /\ args.rotary_dim <= 2)
        => layer.status = "error"

(* C5: a scaled constructor called with scaling_factor <= 0 raises and     *)
(* registers no cache; none ends with a zero-row cache.                     *)
C5_NonPositiveScalingRejected ==
    (Constructed /\ Scaled /\ RatLe(args.scaling_factor, Zero))
        => (layer.status = "error" /\ layer.cos_sin_cache = NoRef)

(* The call of worker w meets the precondition of apply *)
CallInBounds(w, cache) ==
    \A t \in 1..Len(positions[w]) :
        TokenInBounds(cache, positions[w][t], Len(query[w][t]))

(* C6: a forward() call with a position >= the cache's rows, or buffers    *)
(* narrower than rotary_dim, never reaches the rotation primitive.          *)
C6_OutOfBoundsApplyRejected ==
    \A w \in Workers :
        call[w] # NoCall => CallInBounds(w, heap[call[w].cache])

(* C7: with scaling_factor = 2, row 2p of the linear-scaling cache is row  *)
(* p of the base cache of the same arguments, for all                       *)
(* p < max_position_embeddings.                                             *)
C7_LinearRowsMatchBase ==
    (layer.status = "ok" /\ args.variant = "linear"
        /\ args.scaling_factor = RatInt(2))
    =>  LET linear == heap[layer.cos_sin_cache].data
            base == compute_cos_sin_cache(args).val.data
        IN  \A p \in 0..(args.max_position_embeddings - 1) :
                linear[2 * p + 1] = base[p + 1]

C7_Witness ==
    /\ layer.status = "ok"
    /\ args.variant = "linear"
    /\ args.scaling_factor = RatInt(2)
    /\ args.max_position_embeddings = LongContext
    /\ args.rotary_dim = 4

(* The dynamic-NTK layer is the base layer of the same arguments: same     *)
(* outcome, base, inverse frequencies, cache shape and cache entries.       *)
NTKEqualsBase ==
    LET base == compute_cos_sin_cache(args)
    IN  /\ layer.status = "ok"
        /\ base.err = ""
        /\ NTK_base(args) = Ok(PlainBase(args.base))
        /\ compute_inv_freq(args, NTK_base(args).val)
               = compute_inv_freq(args, PlainBase(args.base))
        /\ heap[layer.cos_sin_cache].shape = base.val.shape
        /\ heap[layer.cos_sin_cache].data = base.val.data

(* C8 as stated: dynamic NTK with scaling_factor = 1 and rotary_dim > 2 is *)
(* the base variant, whatever the remaining arguments.                      *)
C8_NTKUnitScaleIsBase ==
    (Constructed /\ args.variant = "ntk" /\ args.scaling_factor = One
        /\ args.rotary_dim > 2)
    => NTKEqualsBase

(* C8 amended: dynamic NTK with scaling_factor = 1, rotary_dim > 2 and     *)
(* max_position_embeddings >= 1 is the base variant.                        *)
C8_NTKUnitScaleIsBase_PositiveLength ==
    (Constructed /\ args.variant = "ntk" /\ args.scaling_factor = One
        /\ args.rotary_dim > 2 /\ args.max_position_embeddings >= 1)
    => NTKEqualsBase

C8_Witness ==
    /\ layer.status = "ok"
    /\ args.variant = "ntk"
    /\ args.scaling_factor = One
    /\ args.rotary_dim = 4
    /\ args.max_position_embeddings = LongContext

(* C9: YaRN with scaling_factor = 1 has mscale = attn_factor, and every    *)
(* inverse frequency its _compute_inv_freq returns is the base variant's    *)
(* 1 / base ** (2j / rotary_dim), whatever beta_fast, beta_slow and         *)
(* extrapolation_factor are.                                                *)
C9_YaRNUnitScaleIsBase ==
    (Constructed /\ args.variant = "yarn" /\ args.scaling_factor = One)
    =>  LET base == compute_inv_freq(args, PlainBase(args.base))
        IN  /\ layer.mscale = Scale(args.attn_factor, One)
            /\ layer.status = "ok" =>
                 \A yarn \in YaRN_compute_inv_freq(args, args.scaling_factor) :
                     /\ yarn.err = ""
                     /\ \A j \in 1..Len(yarn.val) : yarn.val[j] = base.val[j]

C9_Witness ==
    /\ layer.status = "ok"
    /\ args.variant = "yarn"
    /\ args.scaling_factor = One
    /\ args.rotary_dim = 4
    /\ args.max_position_embeddings = LongContext
    /\ args.base = 2
    /\ args.beta_fast = 2
    /\ args.beta_slow = 1
    /\ args.extrapolation_factor = Rat(1, 2)
    /\ args.attn_factor = RatInt(2)

(* Row 0 of the registered cache is 1 in the cosine half, 0 in the sine half *)
RowZeroIsIdentity ==
    /\ layer.status = "ok"
    /\ LET row == heap[layer.cos_sin_cache].data[1]
       IN  /\ Len(row) = args.rotary_dim
           /\ \A j \in 1..Len(row) :
                row[j] = IF 2 * j <= args.rotary_dim THEN ConstOne
                         ELSE ConstZero
    /\ (args.rotary_dim = 4 /\ args.base = 10000
           /\ args.max_position_embeddings = 1)
       => heap[layer.cos_sin_cache].data
              = <<(<<ConstOne, ConstOne, ConstZero, ConstZero>>)>>

(* C11 as stated: for the base variant with an even rotary_dim, any base   *)
(* and max_position_embeddings >= 1, row 0 of the cache is 1 in every       *)
(* cosine column and 0 in every sine column.                                *)
C11_RowZeroIsIdentity ==
    (Constructed /\ args.variant = "base" /\ args.rotary_dim % 2 = 0
        /\ args.max_position_embeddings >= 1)
    => RowZeroIsIdentity

(* C11 amended: for the base variant with an even rotary_dim, a base >= 1  *)
(* and max_position_embeddings >= 1, row 0 of the cache is 1 in every       *)
(* cosine column and 0 in every sine column; for rotary_dim = 4,            *)
(* base = 10000, max_position_embeddings = 1 the cache is the one row       *)
(* [1, 1, 0, 0].                                                            *)
C11_RowZeroIsIdentity_PositiveBase ==
    (Constructed /\ args.variant = "base" /\ args.rotary_dim % 2 = 0
        /\ args.base >= 1 /\ args.max_position_embeddings >= 1)
    => RowZeroIsIdentity

C11_Witness ==
    /\ layer.status = "ok"
    /\ args.variant = "base"
    /\ args.rotary_dim = 4
    /\ args.base = 10000
    /\ args.max_position_embeddings = 1
    /\ heap[layer.cos_sin_cache].shape = <<1, 4>>
    /\ heap[layer.cos_sin_cache].data[1][2] = ConstOne
    /\ heap[layer.cos_sin_cache].data[1][3] = ConstZero

(* x lies between a and b, whichever of the two is the larger *)
RatBetween(x, a, b) ==
    /\ IsFinite(x)
    /\ \/ RatLe(a, x) /\ RatLe(x, b)
       \/ RatLe(b, x) /\ RatLe(x, a)

(* C12: _yarn_linear_ramp_mask never divides by zero and returns, for      *)
(* every (low, high), low == high and low > high included, dim entries that *)
(* all lie in [0, 1]; every inv_freq_mask entry then lies between 0 and     *)
(* extrapolation_factor.                                                    *)
C12_RampWithinUnitInterval ==
    ramp_call.status = "returned" =>
        LET hi == IF ramp_call.low = ramp_call.high
                  THEN RatAdd(ramp_call.high, Rat(1, 1000))
                  ELSE ramp_call.high
        IN  /\ RatSub(hi, ramp_call.low) # Zero
            /\ Len(ramp_call.ramp) = ramp_call.dim
            /\ Len(ramp_call.mask) = ramp_call.dim
            /\ \A j \in 1..ramp_call.dim :
                 /\ RatBetween(ramp_call.ramp[j], Zero, One)
                 /\ RatBetween(ramp_call.mask[j], Zero,
                               ramp_call.extrapolation_factor)

C12_Witness ==
    /\ ramp_call.status = "returned"
    /\ ramp_call.low = RatInt(1)
    /\ ramp_call.high = RatInt(1)
    /\ ramp_call.dim = 3
    /\ ramp_call.ramp = <<Zero, Zero, One>>
    /\ ramp_call.extrapolation_factor = Rat(1, 2)
    /\ ramp_call.mask = <<Rat(1, 2), Rat(1, 2), Zero>>

(* The YaRN layer's _compute_inv_freq returned, so its correction range did *)
YaRNInvFreqReturned ==
    /\ Constructed
    /\ args.variant = "yarn"
    /\ \A inv_freq \in YaRN_compute_inv_freq(args, args.scaling_factor) :
           inv_freq.err = ""

(* The correction ranges the YaRN layer can get *)
YaRNRanges ==
    {range.val :
        range \in yarn_find_correction_range(args.beta_fast, args.beta_slow,
                      args.rotary_dim, args.base, args.max_position_embeddings)}

(* C13: in the YaRN variant with extrapolation_factor = 1 and a correction *)
(* range low < high, the inverse frequency of a half-channel j <= low is    *)
(* the base frequency 1 / base^(2j/rotary_dim), that of j >= high is        *)
(* 1 / (scaling_factor * base^(2j/rotary_dim)), and that of a j in between  *)
(* lies between the two.                                                    *)
C13_YaRNBlendEndpoints ==
    (YaRNInvFreqReturned /\ args.extrapolation_factor = One)
    =>  \A range \in {r \in YaRNRanges : r.low < r.high} :
        LET inv_freq == YaRN_compute_inv_freq_with(args, args.scaling_factor,
                                                   Ok(range)).val
            interpolation == FInv(args.scaling_factor)
            pos_freq(j) == PowTerm(PlainBase(args.base),
                                   Rat(2 * j, args.rotary_dim))
        IN  \A j \in 0..(Len(inv_freq) - 1) :
                /\ j <= range.low
                       => inv_freq[j + 1] = Freq(One, pos_freq(j))
                /\ j >= range.high
                       => inv_freq[j + 1] = Freq(interpolation, pos_freq(j))
                /\ (range.low < j /\ j < range.high)
                       => /\ RatBetween(inv_freq[j + 1].c, interpolation, One)
                          /\ inv_freq[j + 1].w \in {pos_freq(j), UnitPow}

(* Where the double dim(r) = rotary_dim * ln(max_position_embeddings /      *)
(* (r * 2 pi)) / (2 * ln(base)) of the YaRN layer's arguments (rotary_dim   *)
(* >= 0, the others > 0) lies against the integer k: 1 above and -1 below   *)
(* whatever the rounding, 0 within rounding of k.  Compared in one step,    *)
(*   (max_position_embeddings / (r * 2 pi)) ** rotary_dim                   *)
(* against base ** (2 k), 2 pi anywhere between its closest bounds.         *)
DimAgainst(r, k) ==
    LET d == args.rotary_dim
        m == Len(TwoPiDigits) - 1
        mp == BigPow(BigFromInt(args.max_position_embeddings), d)
        nr == BigPow(BigFromInt(r), d)
        b == BigPow(BigFromInt(args.base), 2 * Abs(k))
    IN  IF d = 0 THEN (IF k < 0 THEN 1 ELSE IF k > 0 THEN -1 ELSE 0)
        ELSE IF k >= 0
        THEN BigBetween(BigShift(mp, m * d),
                        BigMul(BigPow(TwoPiBelow(m), d), BigMul(nr, b)),
                        BigMul(BigPow(TwoPiAbove(m), d), BigMul(nr, b)))
        ELSE BigBetween(BigShift(BigMul(mp, b), m * d),
                        BigMul(BigPow(TwoPiBelow(m), d), nr),
                        BigMul(BigPow(TwoPiAbove(m), d), nr))

(* range.low is max(f, 0) for an f that floor(dim(beta_fast)) can be, and   *)
(* range.high is min(c, rotary_dim - 1) for a c that ceil(dim(beta_slow))   *)
(* can be                                                                   *)
RangeIsClampedFloorCeil(range) ==
    /\ range.low >= 0
    /\ range.low = 0 \/ DimAgainst(args.beta_fast, range.low) >= 0
    /\ DimAgainst(args.beta_fast, range.low + 1) <= 0
    /\ range.high <= args.rotary_dim - 1
    /\ range.high = args.rotary_dim - 1
           \/ DimAgainst(args.beta_slow, range.high) <= 0
    /\ DimAgainst(args.beta_slow, range.high - 1) >= 0

(* The layer was given these arguments only if its correction range is     *)
(* (low, high) and no other                                                 *)
RangeOf(beta_fast, beta_slow, rotary_dim, base, max_position_embeddings, low, high) ==
    (/\ args.beta_fast = beta_fast
     /\ args.beta_slow = beta_slow
     /\ args.rotary_dim = rotary_dim
     /\ args.base = base
     /\ args.max_position_embeddings = max_position_embeddings)
    => YaRNRanges = {[low |-> low, high |-> high]}

(* What _yarn_find_correction_range(beta_fast, beta_slow, rotary_dim, base, *)
(* max_position_embeddings) returns.  In the first the real dim(1) is       *)
(* -2.13.  In the others a quotient max_position_embeddings / (beta * 2 *   *)
(* math.pi) is the double 1.0 or 2.0, the double dim(beta) is the integer   *)
(* 0, 1 or 2, and floor and ceiling are the same.                           *)
RangesReturned ==
    /\ RangeOf(1, 1, 4, 2, 3, 0, -2)
    /\ RangeOf(78256779, 78256779, 2, 2, 491701844, 0, 0)
    /\ RangeOf(78256779, 78256779, 4, 2, 491701844, 0, 0)
    /\ RangeOf(78256779, 78256779, 6, 2, 491701844, 0, 0)
    /\ RangeOf(78256779, 78256779, 2, 2, 983403688, 1, 1)
    /\ RangeOf(78256779, 78256779, 4, 2, 983403688, 2, 2)
    /\ RangeOf(156513558, 78256779, 4, 2, 983403688, 0, 2)
    /\ RangeOf(156513558, 78256779, 4, 2, 1966807376, 2, 3)

(* C14 as stated: the range the YaRN variant gets for (beta_fast,           *)
(* beta_slow) is low = max(floor(dim(beta_fast)), 0), high =                *)
(* min(ceil(dim(beta_slow)), rotary_dim - 1), and for every parameter       *)
(* choice 0 <= low <= high <= rotary_dim - 1.                               *)
C14_CorrectionRangeOrdered ==
    YaRNInvFreqReturned =>
        \A range \in YaRNRanges :
            /\ RangeIsClampedFloorCeil(range)
            /\ range.low <= range.high

(* C14 amended: low and high are the clamped floor and ceiling of the       *)
(* doubles dim(beta_fast) and dim(beta_slow), so low >= 0 and               *)
(* high <= rotary_dim - 1; low <= high when base >= 2 and                   *)
(* beta_fast >= beta_slow >= 1 are integers and, by more than the rounding  *)
(* of the doubles, dim(beta_slow) > -1 and dim(beta_fast) < rotary_dim.     *)
C14_CorrectionRangeClamped ==
    YaRNInvFreqReturned =>
        /\ \A range \in YaRNRanges : RangeIsClampedFloorCeil(range)
        /\ RangesReturned
        /\ (/\ args.base >= 2
            /\ args.beta_fast >= args.beta_slow
            /\ args.beta_slow >= 1
            /\ DimAgainst(args.beta_slow, -1) = 1
            /\ DimAgainst(args.beta_fast, args.rotary_dim) = -1)
           => \A range \in YaRNRanges : range.low <= range.high

C14_Witness ==
    /\ YaRNInvFreqReturned
    /\ layer.status = "ok"
    /\ args.rotary_dim = 4
    /\ args.base = 2
    /\ args.max_position_embeddings = 1966807376
    /\ args.beta_fast = 156513558
    /\ args.beta_slow = 78256779
    /\ DimAgainst(args.beta_slow, -1) = 1
    /\ DimAgainst(args.beta_fast, args.rotary_dim) = -1
    /\ YaRNRanges = {[low |-> 2, high |-> 3]}

(* attn_factor * (1.0 if scaling_factor <= 1 else 0.1 ln(scaling_factor) + 1.0) *)
ExpectedMscale ==
    IF RatLe(args.scaling_factor, One) THEN Scale(args.attn_factor, One)
    ELSE Scale(args.attn_factor, args.scaling_factor)

(* The cos/sin values of the YaRN angles, not multiplied by anything *)
UnscaledCosSin ==
    LET t == arange(RatMul(RatInt(args.max_position_embeddings),
                           args.scaling_factor)).val
    IN  {cat_cos_sin(einsum(t, inv_freq.val), Len(inv_freq.val),
                     UnitScale).data :
            inv_freq \in YaRN_compute_inv_freq(args, args.scaling_factor)}

(* The entry e times m: 0 and nan stay what they are *)
TimesMscale(e, m) ==
    IF e.fn = "nan" \/ e = ConstZero THEN e ELSE [e EXCEPT !.scale = m]

(* C15: the YaRN layer's mscale is attn_factor * (1.0 if scaling_factor    *)
(* <= 1 else 0.1 ln(scaling_factor) + 1.0), set before the cache is built   *)
(* and the same ever after; every cache entry is the unscaled cos/sin       *)
(* value times that mscale, and row 0 is mscale in the cosine columns and   *)
(* 0 in the sine columns.                                                   *)
C15_MscaleAppliedToCache ==
    (Constructed /\ args.variant = "yarn") =>
        /\ layer.mscale = ExpectedMscale
        /\ layer.status = "ok" =>
             LET cache == heap[layer.cos_sin_cache].data
                 mscale == ExpectedMscale
                 row0 == cache[1]
             IN  /\ \E unscaled \in UnscaledCosSin :
                      cache = [p \in 1..Len(unscaled) |->
                                  [j \in 1..Len(unscaled[p]) |->
                                      TimesMscale(unscaled[p][j], mscale)]]
                 /\ Len(cache) >= 1 =>
                      row0 = [j \in 1..Len(row0) |->
                                 IF 2 * j <= Len(row0)
                                 THEN [fn |-> "const",
                                       angle |-> Freq(Zero, UnitPow),
                                       scale |-> mscale]
                                 ELSE ConstZero]

C15_Witness ==
    /\ layer.status = "ok"
    /\ args.variant = "yarn"
    /\ args.scaling_factor = RatInt(2)
    /\ args.attn_factor = One
    /\ args.rotary_dim = 2
    /\ pc["w1"] = "done"
    /\ layer.mscale = Scale(One, RatInt(2))
    /\ heap[layer.cos_sin_cache].data[1][1].scale = Scale(One, RatInt(2))
    /\ heap[layer.cos_sin_cache].data[2][1].fn = "cos"
    /\ heap[layer.cos_sin_cache].data[2][2].fn = "sin"
    /\ heap[layer.cos_sin_cache].data[2][2].scale = Scale(One, RatInt(2))

(* C16: for a config with max_position_embeddings and a rope_scaling        *)
(* factor, a max_model_len that _get_and_verify_max_len returns is at most  *)
(* the number of rows of the scaled cache built from the same               *)
(* max_position_embeddings and factor, so every position below it has its   *)
(* row; a user-specified max_model_len above the derived length is rejected *)
(* with ValueError.                                                         *)
C16_MaxLenWithinCache ==
    (/\ config.status \in {"returned", "raised"}
     /\ config.hf_config[1].attrs["max_position_embeddings"] # None
     /\ config.hf_config[1].rope_scaling # None
     /\ config.hf_config[1].rope_scaling[1].factor # None)
    =>  LET hf == config.hf_config[1]
            factor == hf.rope_scaling[1].factor[1]
            lens == {hf.attrs[k][1] :
                        k \in {n \in DOMAIN hf.attrs : hf.attrs[n] # None}}
            shortest == CHOOSE n \in lens : \A o \in lens : n <= o
            derived == RatMul(RatInt(shortest), factor)
        IN  /\ (config.status = "returned" /\ layer.status = "ok")
                  => /\ Scaled
                     /\ config.result <= heap[layer.cos_sin_cache].shape[1]
                     /\ \A pos \in 0..(config.result - 1) :
                          pos + 1 \in DOMAIN heap[layer.cos_sin_cache].data
            /\ (config.max_model_len # None
                   /\ RatLt(derived, RatInt(config.max_model_len[1])))
                  => (config.status = "raised" /\ config.error = "ValueError")

C16_Witness ==
    /\ config.status = "returned"
    /\ layer.status = "ok"
    /\ args.variant = "linear"
    /\ args.max_position_embeddings = 3
    /\ args.scaling_factor = Rat(3, 2)
    /\ config.hf_config[1].attrs["max_seq_len"] = None
    /\ config.max_model_len = None
    /\ config.result = 4
    /\ heap[layer.cos_sin_cache].shape[1] = 5

(* What the call of worker w leaves in a buffer when it runs alone on the  *)
(* cache the constructor built                                              *)
Sequential(buf, w, built) ==
    [t \in 1..Len(positions[w]) |->
        Rotate(Buffer(buf, Len(positions[w]), Len(query[w][t]))[t],
               built.data[positions[w][t] + 1],
               built.shape[2], layer.is_neox_style)]

(* C10: forward() calls of several workers on one layer, each on its own   *)
(* buffers and within the precondition of apply, end under every            *)
(* interleaving with the buffers each call yields alone, and the cache      *)
(* stays the one the constructor built.                                     *)
C10_ConcurrentApplyIsSequential ==
    layer.status = "ok" =>
        LET built == heap[layer.cos_sin_cache]
        IN  /\ BuiltCaches = {built}
            /\ \A w \in Workers :
                 (pc[w] = "done" /\ CallInBounds(w, built))
                     => /\ query[w] = Sequential("query", w, built)
                        /\ key[w] = Sequential("key", w, built)

C10_Witness ==
    /\ \A w \in Workers :
         /\ pc[w] = "done"
         /\ Len(positions[w]) = 2
         /\ CallInBounds(w, heap[layer.cos_sin_cache])
    /\ positions["w1"] = <<1, 0>>
    /\ positions["w2"] = <<0, 1>>
    /\ Len(query["w1"][1]) > heap[layer.cos_sin_cache].shape[2]

====
